---- MODULE Spec2Model ----
(***************************************************************************)
(* multigrep (mgp): a walker goroutine (filepath.Walk inside Run) feeds a  *)
(* buffered channel of entries, N handler goroutines test the files, and a *)
(* signal goroutine requests termination.  ParseArgs is modelled as a      *)
(* second, independent specification (SpecArgs).                           *)
(***************************************************************************)
EXTENDS Integers, Sequences, FiniteSets, TLC

(* ------------------------------ bounds -------------------------------- *)
\* number of handler goroutines (Run's `workers`)
NumWorkers == 2
\* capacity of the entry channel (make(chan *Entry, 5000), scaled down)
QueueCap == 2
\* Run's size limit is drawn from 1..MaxLimit
MaxLimit == 2
\* -lim values on the command line are drawn from 0..MaxLimArg
MaxLimArg == 3

(* ------------------------- program constants -------------------------- *)
MEGABYTE == 1048576
DefaultLim == 100
DefaultWorkers == 100

Workers == 1..NumWorkers

(* ------------------------------ the tree ------------------------------ *)
\* A path is a sequence of one-character strings; "/" is the separator.
\* A line of a file is [m |-> the regexp matches it, nl |-> it ends in \n].
FooNl == [m |-> TRUE, nl |-> TRUE]
BarNl == [m |-> FALSE, nl |-> TRUE]
FooEnd == [m |-> TRUE, nl |-> FALSE]

Dir(p, par) ==
  [path |-> p, parent |-> par, isDir |-> TRUE, regular |-> FALSE, size |-> 0, lines |-> <<>>]

Reg(p, par, sz, ls) ==
  [path |-> p, parent |-> par, isDir |-> FALSE, regular |-> TRUE, size |-> sz, lines |-> ls]

Lnk(p, par, sz) ==
  [path |-> p, parent |-> par, isDir |-> FALSE, regular |-> FALSE, size |-> sz, lines |-> <<>>]

\* The tree in the order filepath.Walk visits it (pre-order, names sorted):
\*   r/  r/.git/  r/.git/c  r/a  r/b  r/d/  r/d/CVS  r/d/k  r/s -> (symlink)  r/t
Tree ==
  << Dir(<<"r">>, 0),
     Dir(<<"r", "/", ".", "g", "i", "t">>, 1),
     Reg(<<"r", "/", ".", "g", "i", "t", "/", "c">>, 2, 1, <<FooNl>>),
     Reg(<<"r", "/", "a">>, 1, 1, <<FooNl>>),
     Reg(<<"r", "/", "b">>, 1, 0, <<BarNl, FooEnd>>),
     Dir(<<"r", "/", "d">>, 1),
     Reg(<<"r", "/", "d", "/", "C", "V", "S">>, 6, 1, <<FooNl>>),
     Reg(<<"r", "/", "d", "/", "k">>, 6, MaxLimit, <<FooNl>>),
     Lnk(<<"r", "/", "s">>, 1, 1),
     Reg(<<"r", "/", "t">>, 1, 1, <<FooNl, BarNl, FooNl>>) >>

NumNodes == Len(Tree)
Nodes == 1..NumNodes

RECURSIVE IsUnder(_, _)
\* node i lies strictly beneath directory d
IsUnder(i, d) ==
  IF i = 0 THEN FALSE
  ELSE LET p == Tree[i].parent IN p = d \/ IsUnder(p, d)

\* first node after the subtree of i in walk order (what SkipDir resumes at)
NextAfterSubtree(i) ==
  IF \E j \in Nodes : j > i /\ ~IsUnder(j, i)
  THEN CHOOSE j \in Nodes : j > i /\ ~IsUnder(j, i)
                            /\ \A k \in Nodes : (k > i /\ k < j) => IsUnder(k, i)
  ELSE NumNodes + 1

(* ------------------------------- globs -------------------------------- *)
RECURSIVE Match(_, _)
\* filepath.Match for patterns made of literals, "*" and "?"
Match(pat, name) ==
  IF pat = <<>> THEN name = <<>>
  ELSE IF Head(pat) = "*"
       THEN Match(Tail(pat), name)
            \/ (name # <<>> /\ Head(name) # "/" /\ Match(pat, Tail(name)))
  ELSE IF Head(pat) = "?"
       THEN name # <<>> /\ Head(name) # "/" /\ Match(Tail(pat), Tail(name))
  ELSE name # <<>> /\ Head(name) = Head(pat) /\ Match(Tail(pat), Tail(name))

RECURSIVE Base(_)
\* filepath.Base: the last element of the path
Base(p) ==
  IF \E k \in 1..Len(p) : p[k] = "/"
  THEN Base(Tail(p))
  ELSE p

STD_EXC_DIRS ==
  << <<".", "b", "z", "r">>, <<"C", "V", "S">>, <<".", "g", "i", "t">>,
     <<".", "h", "g">>, <<".", "s", "v", "n">>, <<".", "i", "d", "e", "a">>,
     <<".", "t", "o", "x">> >>

\* the -exc lists a run may be given: none, or a full path and a wildcard
UserExcludes == { <<>>, << <<"r", "/", "d">>, <<"*", "/", "a">> >> }

\* Flags.GetExcludedDirs
GetExcludedDirs(exclude) ==
  IF exclude = <<>> THEN STD_EXC_DIRS ELSE STD_EXC_DIRS \o exclude

\* the full path or the base name matches some glob of exc
GlobHit(pathname, exc) ==
  \E k \in 1..Len(exc) : Match(exc[k], pathname) \/ Match(exc[k], Base(pathname))

(* ------------------------------ faults -------------------------------- *)
\* What the filesystem does to one path of the run:
\*   lstat   - os.Lstat fails, Walk calls the callback with a nil FileInfo
\*   readdir - reading the directory fails, the callback gets info and err
\*   open    - os.Open fails in the worker
\*   read    - reads of the file may fail with an error other than io.EOF
\* noent tells whether the error satisfies os.IsNotExist.
NoFault == [kind |-> "none", node |-> 0, noent |-> FALSE]

Faults ==
  { NoFault,
    [kind |-> "lstat", node |-> 1, noent |-> TRUE],
    [kind |-> "lstat", node |-> 4, noent |-> TRUE],
    [kind |-> "lstat", node |-> 9, noent |-> FALSE],
    [kind |-> "readdir", node |-> 6, noent |-> FALSE],
    [kind |-> "open", node |-> 4, noent |-> FALSE],
    [kind |-> "read", node |-> 10, noent |-> FALSE] }

(* ------------------------------- state -------------------------------- *)
VARIABLES
  exludedDirs,      \* Run's exclusion globs
  limitMb,          \* Run's size limit, compared with FileInfo.Size()
  matchContext,     \* Flags.matchContext (-ctx)
  fault,            \* the filesystem fault of this run
  runPc,            \* Run: "walk" "send" "close" "wait" "closesig" "check" "returned"
  idx,              \* the node filepath.Walk visits next
  halt,             \* "run", "fatal" (log.Fatal), "nilderef" or "closedsend" (panics)
  ch,               \* the entry channel's buffer (node ids)
  chClosed,         \* close(ch) was executed
  closeSignalChan,  \* number of buffered cancellation tokens
  sigClosed,        \* close(closeSignalChan) was executed
  stopWalk,         \* the shared stop flag
  sigPc,            \* signal goroutine: "wait" "send" "done"
  sigI,             \* its loop counter i
  wpc,              \* handler: "select" "default" "open" "read" "done"
  wentry,           \* the entry a handler holds (0: none)
  wline,            \* index of the next line ReadBytes returns
  errSeen,          \* a read of the held entry has failed
  enq,              \* nodes ever sent on ch
  matches,          \* Match events per node
  errs,             \* nodes an Error event was printed for
  infoCount,        \* "Ended by user" events
  sigch,            \* signals buffered in sigch that nobody receives any more
  deq,              \* how many times each node was received from ch
  tested,           \* nodes whose content a handler has started to read
  ppc,              \* ParseArgs: "idle" "define" "scale" "parse" "check" "returned" "exit"
  argv,             \* the command line
  f                 \* the Flags ParseArgs fills, and printVersion

runVars ==
  << exludedDirs, limitMb, matchContext, fault, runPc, idx, halt, ch, chClosed,
     closeSignalChan, sigClosed, stopWalk, sigPc, sigI, wpc, wentry, wline,
     errSeen, enq, matches, errs, infoCount, sigch, deq, tested >>

argVars == << ppc, argv, f >>

vars == << runVars, argVars >>

\* a flag absent from the command line; a given value v is <<v>>
NoArg == <<>>
NoFlags == [workers |-> 0, limitBytes |-> 0, matchContext |-> FALSE, printVersion |-> FALSE]
NoArgv == [lim |-> NoArg, w |-> NoArg, ctx |-> FALSE, v |-> FALSE, npos |-> 0]

\* The state when filepath.Walk is about to start: channels made, signal
\* handler installed, the handlers spawned (mgp.go 178-189).  Run has no
\* parameter for -ctx and nothing reads the flag, so runs with it on are
\* drawn fault-free.  Runs with -ctx on or with a filesystem fault are drawn
\* under the largest limit and the standard exclusions, where the walk
\* reaches every node a fault sits on.
RunInit ==
  /\ exludedDirs \in { GetExcludedDirs(u) : u \in UserExcludes }
  /\ limitMb \in 1..MaxLimit
  /\ matchContext \in BOOLEAN
  /\ fault \in Faults
  /\ matchContext => fault = NoFault
  /\ (matchContext \/ fault # NoFault)
       => (limitMb = MaxLimit /\ exludedDirs = GetExcludedDirs(<<>>))
  /\ runPc = "walk"
  /\ idx = 1
  /\ halt = "run"
  /\ ch = <<>>
  /\ chClosed = FALSE
  /\ closeSignalChan = 0
  /\ sigClosed = FALSE
  /\ stopWalk = FALSE
  /\ sigPc = "wait"
  /\ sigI = 0
  /\ wpc = [w \in Workers |-> "select"]
  /\ wentry = [w \in Workers |-> 0]
  /\ wline = [w \in Workers |-> 0]
  /\ errSeen = [w \in Workers |-> FALSE]
  /\ enq = {}
  /\ matches = [n \in Nodes |-> 0]
  /\ errs = {}
  /\ infoCount = 0
  /\ sigch = 0
  /\ deq = [n \in Nodes |-> 0]
  /\ tested = {}

Init ==
  /\ RunInit
  /\ ppc = "idle"
  /\ argv = NoArgv
  /\ f = NoFlags

(* ------------------------------ walker -------------------------------- *)
\* the walk moves on to node j, or is over
Advance(j) ==
  /\ idx' = j
  /\ runPc' = IF j > NumNodes THEN "close" ELSE "walk"

\* the error filepath.Walk hands to the callback for node i
WalkErr(i) == fault.node = i /\ fault.kind \in {"lstat", "readdir"}
\* the FileInfo is nil
NilInfo(i) == fault.node = i /\ fault.kind = "lstat"

\* variant: only the full path is matched against the globs
SkipsDirFullOnly(isdir, pathname, exc) ==
  isdir /\ \E k \in 1..Len(exc) : Match(exc[k], pathname)

\* processPath's exclusion loop returns filepath.SkipDir
SkipsDir(isdir, pathname, exc) == isdir /\ GlobHit(pathname, exc)

\* variant: the boundary size is let through
EnqueuesUpTo(isdir, size, limit) == ~isdir /\ size <= limit

\* processPath's enqueue condition
Enqueues(isdir, size, limit) == ~isdir /\ size < limit

\* handlePathError (mgp.go 127-142)
handlePathError(i) ==
  IF fault.noent
  THEN /\ halt' = "fatal"
       /\ UNCHANGED << runPc, idx, errs >>
  ELSE /\ errs' = errs \cup {i}
       /\ IF NilInfo(i)
          THEN halt' = "nilderef" /\ UNCHANGED << runPc, idx >>
          ELSE /\ halt' = halt
               /\ IF Tree[i].isDir THEN Advance(NextAfterSubtree(i)) ELSE Advance(i + 1)

\* processPath up to the send (mgp.go 108-124)
processPath(i) ==
  /\ UNCHANGED << halt, errs >>
  /\ IF SkipsDir(Tree[i].isDir, Tree[i].path, exludedDirs)
     THEN Advance(NextAfterSubtree(i))
     ELSE IF Enqueues(Tree[i].isDir, Tree[i].size, limitMb)
          THEN runPc' = "send" /\ idx' = idx
          ELSE Advance(i + 1)

\* variant: the stop flag is looked at for directories only
WalkFnDirsOnly ==
  /\ halt = "run" /\ runPc = "walk" /\ idx <= NumNodes
  /\ IF stopWalk /\ Tree[idx].isDir
     THEN runPc' = "close" /\ UNCHANGED << idx, halt, errs >>
     ELSE IF WalkErr(idx) THEN handlePathError(idx) ELSE processPath(idx)
  /\ UNCHANGED << exludedDirs, limitMb, matchContext, fault, ch, chClosed,
                  closeSignalChan, sigClosed, stopWalk, sigPc, sigI, wpc, wentry,
                  wline, errSeen, enq, matches, infoCount, argVars, sigch, deq, tested >>

\* one call of the walk callback (mgp.go 194-211)
WalkFn ==
  /\ halt = "run" /\ runPc = "walk" /\ idx <= NumNodes
  /\ IF stopWalk
     THEN runPc' = "close" /\ UNCHANGED << idx, halt, errs >>
     ELSE IF WalkErr(idx) THEN handlePathError(idx) ELSE processPath(idx)
  /\ UNCHANGED << exludedDirs, limitMb, matchContext, fault, ch, chClosed,
                  closeSignalChan, sigClosed, stopWalk, sigPc, sigI, wpc, wentry,
                  wline, errSeen, enq, matches, infoCount, argVars, sigch, deq, tested >>

\* c <- &Entry{...}: blocks while the buffer is full (mgp.go 120)
WalkSend ==
  /\ halt = "run" /\ runPc = "send"
  /\ Len(ch) < QueueCap
  /\ ch' = Append(ch, idx)
  /\ enq' = enq \cup {idx}
  /\ Advance(idx + 1)
  /\ UNCHANGED << exludedDirs, limitMb, matchContext, fault, halt, chClosed,
                  closeSignalChan, sigClosed, stopWalk, sigPc, sigI, wpc, wentry,
                  wline, errSeen, matches, errs, infoCount, argVars, sigch, deq, tested >>

(* ------------------------- the rest of Run ---------------------------- *)
\* variant: the channel is also closed while the walker is inside its send
CloseChEarly ==
  /\ halt = "run" /\ runPc \in {"close", "send"} /\ ~chClosed
  /\ chClosed' = TRUE
  /\ runPc' = IF runPc = "close" THEN "wait" ELSE runPc
  /\ UNCHANGED << exludedDirs, limitMb, matchContext, fault, idx, halt, ch,
                  closeSignalChan, sigClosed, stopWalk, sigPc, sigI, wpc, wentry,
                  wline, errSeen, enq, matches, errs, infoCount, argVars, sigch, deq, tested >>

\* close(ch) (mgp.go 215)
CloseCh ==
  /\ halt = "run" /\ runPc = "close"
  /\ chClosed' = TRUE
  /\ runPc' = "wait"
  /\ UNCHANGED << exludedDirs, limitMb, matchContext, fault, idx, halt, ch,
                  closeSignalChan, sigClosed, stopWalk, sigPc, sigI, wpc, wentry,
                  wline, errSeen, enq, matches, errs, infoCount, argVars, sigch, deq, tested >>

\* wg.Wait() (mgp.go 218)
WgWait ==
  /\ halt = "run" /\ runPc = "wait"
  /\ \A w \in Workers : wpc[w] = "done"
  /\ runPc' = "closesig"
  /\ UNCHANGED << exludedDirs, limitMb, matchContext, fault, idx, halt, ch, chClosed,
                  closeSignalChan, sigClosed, stopWalk, sigPc, sigI, wpc, wentry,
                  wline, errSeen, enq, matches, errs, infoCount, argVars, sigch, deq, tested >>

\* close(closeSignalChan) (mgp.go 221)
CloseSig ==
  /\ halt = "run" /\ runPc = "closesig"
  /\ sigClosed' = TRUE
  /\ runPc' = "check"
  /\ UNCHANGED << exludedDirs, limitMb, matchContext, fault, idx, halt, ch, chClosed,
                  closeSignalChan, stopWalk, sigPc, sigI, wpc, wentry,
                  wline, errSeen, enq, matches, errs, infoCount, argVars, sigch, deq, tested >>

\* if stopWalk { printHandler("Ended by user", TextMessage) } (mgp.go 223-226)
EndedByUser ==
  /\ halt = "run" /\ runPc = "check"
  /\ infoCount' = IF stopWalk THEN infoCount + 1 ELSE infoCount
  /\ runPc' = "returned"
  /\ UNCHANGED << exludedDirs, limitMb, matchContext, fault, idx, halt, ch, chClosed,
                  closeSignalChan, sigClosed, stopWalk, sigPc, sigI, wpc, wentry,
                  wline, errSeen, enq, matches, errs, argVars, sigch, deq, tested >>

(* ------------------------------ handler ------------------------------- *)
wUnch ==
  UNCHANGED << exludedDirs, limitMb, matchContext, fault, runPc, idx, halt, chClosed,
               sigClosed, stopWalk, sigPc, sigI, enq, errs, infoCount, argVars, sigch >>

\* case <-closech: return (mgp.go 67-68)
SelectClose(w) ==
  /\ halt = "run" /\ wpc[w] = "select"
  /\ closeSignalChan > 0
  /\ closeSignalChan' = closeSignalChan - 1
  /\ wpc' = [wpc EXCEPT ![w] = "done"]
  /\ UNCHANGED << ch, wentry, wline, errSeen, matches, deq, tested >>
  /\ wUnch

\* variant: the receive takes the entry after the head along with it
SelectEntryLossy(w) ==
  /\ halt = "run" /\ wpc[w] = "select"
  /\ Len(ch) > 0
  /\ ch' = IF Len(ch) > 1 THEN Tail(Tail(ch)) ELSE Tail(ch)
  /\ wentry' = [wentry EXCEPT ![w] = Head(ch)]
  /\ deq' = [deq EXCEPT ![Head(ch)] = @ + 1]
  /\ wpc' = [wpc EXCEPT ![w] = "open"]
  /\ UNCHANGED << closeSignalChan, wline, errSeen, matches, tested >>
  /\ wUnch

\* variant: the receive leaves the entry in the buffer while another follows it
SelectEntryPeek(w) ==
  /\ halt = "run" /\ wpc[w] = "select"
  /\ Len(ch) > 0
  /\ ch' = IF Len(ch) > 1 /\ deq[Head(ch)] = 0 THEN ch ELSE Tail(ch)
  /\ wentry' = [wentry EXCEPT ![w] = Head(ch)]
  /\ deq' = [deq EXCEPT ![Head(ch)] = @ + 1]
  /\ wpc' = [wpc EXCEPT ![w] = "open"]
  /\ UNCHANGED << closeSignalChan, wline, errSeen, matches, tested >>
  /\ wUnch

\* case e, more := <-ch with an entry (mgp.go 69, 74)
SelectEntry(w) ==
  /\ halt = "run" /\ wpc[w] = "select"
  /\ Len(ch) > 0
  /\ ch' = Tail(ch)
  /\ wentry' = [wentry EXCEPT ![w] = Head(ch)]
  /\ deq' = [deq EXCEPT ![Head(ch)] = @ + 1]
  /\ wpc' = [wpc EXCEPT ![w] = "open"]
  /\ UNCHANGED << closeSignalChan, wline, errSeen, matches, tested >>
  /\ wUnch

\* variant: the closed, drained channel does not end the loop
SelectNoMoreLoops(w) ==
  /\ halt = "run" /\ wpc[w] = "select"
  /\ Len(ch) = 0 /\ chClosed
  /\ wpc' = [wpc EXCEPT ![w] = "default"]
  /\ UNCHANGED << ch, closeSignalChan, wentry, wline, errSeen, matches, deq, tested >>
  /\ wUnch

\* case e, more := <-ch on the closed, drained channel: return (mgp.go 70-72)
SelectNoMore(w) ==
  /\ halt = "run" /\ wpc[w] = "select"
  /\ Len(ch) = 0 /\ chClosed
  /\ wpc' = [wpc EXCEPT ![w] = "done"]
  /\ UNCHANGED << ch, closeSignalChan, wentry, wline, errSeen, matches, deq, tested >>
  /\ wUnch

\* default: taken when no other case is ready (mgp.go 101)
SelectDefault(w) ==
  /\ halt = "run" /\ wpc[w] = "select"
  /\ closeSignalChan = 0 /\ Len(ch) = 0 /\ ~chClosed
  /\ wpc' = [wpc EXCEPT ![w] = "default"]
  /\ UNCHANGED << ch, closeSignalChan, wentry, wline, errSeen, matches, deq, tested >>
  /\ wUnch

\* continue (mgp.go 102)
Continue(w) ==
  /\ halt = "run" /\ wpc[w] = "default"
  /\ wpc' = [wpc EXCEPT ![w] = "select"]
  /\ UNCHANGED << ch, closeSignalChan, wentry, wline, errSeen, matches, deq, tested >>
  /\ wUnch

\* os.Open returns an error for the entry
OpenFails(e) == fault.kind = "open" /\ fault.node = e

\* the regular-file check and os.Open (mgp.go 76-86)
Open(w) ==
  /\ halt = "run" /\ wpc[w] = "open"
  /\ IF ~Tree[wentry[w]].regular \/ OpenFails(wentry[w])
     THEN /\ wpc' = [wpc EXCEPT ![w] = "select"]
          /\ wentry' = [wentry EXCEPT ![w] = 0]
          /\ wline' = wline
     ELSE /\ wpc' = [wpc EXCEPT ![w] = "read"]
          /\ wentry' = wentry
          /\ wline' = [wline EXCEPT ![w] = 1]
  /\ tested' = IF ~Tree[wentry[w]].regular \/ OpenFails(wentry[w])
                THEN tested ELSE tested \cup {wentry[w]}
  /\ UNCHANGED << ch, closeSignalChan, errSeen, matches, deq >>
  /\ wUnch

\* bufread.ReadBytes('\n') at line index i of a file: the bytes and the error
ReadBytes(lines, i) ==
  IF i > Len(lines) THEN [m |-> FALSE, err |-> "EOF"]
  ELSE [m |-> lines[i].m, err |-> IF lines[i].nl THEN "nil" ELSE "EOF"]

\* a failed read: no bytes, an error other than io.EOF
ReadFailure == [m |-> FALSE, err |-> "EIO"]

\* the loop leaves on this read result (mgp.go 91-98)
Breaks(rd) == rd.err = "EOF" \/ rd.m

\* the loop prints a Match event for this read result (mgp.go 91-96)
Prints(rd) == rd.err # "EOF" /\ rd.m

\* the body of the read loop for one read result, file.Close() on leaving
ReadStep(w, rd) ==
  /\ matches' = IF Prints(rd)
                THEN [matches EXCEPT ![wentry[w]] = @ + 1]
                ELSE matches
  /\ errSeen' = [errSeen EXCEPT ![w] = IF Breaks(rd) THEN FALSE
                                       ELSE (@ \/ rd.err = "EIO")]
  /\ IF Breaks(rd)
     THEN /\ wpc' = [wpc EXCEPT ![w] = "select"]
          /\ wentry' = [wentry EXCEPT ![w] = 0]
          /\ wline' = [wline EXCEPT ![w] = 0]
     ELSE /\ wpc' = wpc
          /\ wentry' = wentry
          /\ wline' = [wline EXCEPT ![w] = IF rd.err = "nil" THEN @ + 1 ELSE @]

\* one iteration of the read loop (mgp.go 88-100)
Read(w) ==
  /\ halt = "run" /\ wpc[w] = "read"
  /\ \/ ReadStep(w, ReadBytes(Tree[wentry[w]].lines, wline[w]))
     \/ /\ fault.kind = "read" /\ fault.node = wentry[w]
        /\ ReadStep(w, ReadFailure)
  /\ UNCHANGED << ch, closeSignalChan, deq, tested >>
  /\ wUnch

(* -------------------------- signal goroutine -------------------------- *)
\* variant: the flag is not set before the tokens are sent
SignalNoStop ==
  /\ halt = "run" /\ sigPc = "wait" /\ runPc # "returned"
  /\ stopWalk' = stopWalk
  /\ sigPc' = "send"
  /\ UNCHANGED << exludedDirs, limitMb, matchContext, fault, runPc, idx, halt, ch,
                  chClosed, closeSignalChan, sigClosed, sigI, wpc, wentry, wline,
                  errSeen, enq, matches, errs, infoCount, argVars, sigch, deq, tested >>

\* <-sigch; *stopWalk = true (mgp.go 149-151)
Signal ==
  /\ halt = "run" /\ sigPc = "wait" /\ runPc # "returned"
  /\ stopWalk' = TRUE
  /\ sigPc' = "send"
  /\ UNCHANGED << exludedDirs, limitMb, matchContext, fault, runPc, idx, halt, ch,
                  chClosed, closeSignalChan, sigClosed, sigI, wpc, wentry, wline,
                  errSeen, enq, matches, errs, infoCount, argVars, sigch, deq, tested >>

\* variant: after the last token the goroutine waits for the next signal
SendTokenRearm ==
  /\ halt = "run" /\ sigPc = "send"
  /\ IF sigClosed
     THEN /\ halt' = "closedsend"
          /\ UNCHANGED << closeSignalChan, sigI, sigPc >>
     ELSE /\ closeSignalChan < NumWorkers
          /\ halt' = halt
          /\ closeSignalChan' = closeSignalChan + 1
          /\ sigI' = sigI + 1
          /\ sigPc' = IF (sigI + 1) % NumWorkers # 0 THEN "send" ELSE "wait"
  /\ UNCHANGED << exludedDirs, limitMb, matchContext, fault, runPc, idx, ch,
                  chClosed, sigClosed, stopWalk, wpc, wentry, wline,
                  errSeen, enq, matches, errs, infoCount, argVars, sigch, deq, tested >>

\* closed <- true, i++ (mgp.go 153-155); the channel holds `workers` tokens
\* (mgp.go 181), a send on a closed channel panics
SendToken ==
  /\ halt = "run" /\ sigPc = "send"
  /\ IF sigClosed
     THEN /\ halt' = "closedsend"
          /\ UNCHANGED << closeSignalChan, sigI, sigPc >>
     ELSE /\ closeSignalChan < NumWorkers
          /\ halt' = halt
          /\ closeSignalChan' = closeSignalChan + 1
          /\ sigI' = sigI + 1
          /\ sigPc' = IF sigI + 1 < NumWorkers THEN "send" ELSE "done"
  /\ UNCHANGED << exludedDirs, limitMb, matchContext, fault, runPc, idx, ch,
                  chClosed, sigClosed, stopWalk, wpc, wentry, wline,
                  errSeen, enq, matches, errs, infoCount, argVars, sigch, deq, tested >>

\* a further SIGINT/SIGTERM once the goroutine has taken its one signal:
\* signal.Notify puts it in sigch's one-slot buffer (mgp.go 146-147), or
\* drops it when the slot is taken; nothing receives from sigch any more
SignalAgain ==
  /\ halt = "run" /\ sigPc # "wait" /\ runPc # "returned"
  /\ sigch = 0
  /\ sigch' = 1
  /\ UNCHANGED << exludedDirs, limitMb, matchContext, fault, runPc, idx, halt, ch,
                  chClosed, closeSignalChan, sigClosed, stopWalk, sigPc, sigI, wpc,
                  wentry, wline, errSeen, enq, matches, errs, infoCount, argVars,
                  deq, tested >>

(* ---------------------------- specification --------------------------- *)
Worker(w) ==
  \/ SelectClose(w)
  \/ SelectEntry(w)
  \/ SelectNoMore(w)
  \/ SelectDefault(w)
  \/ Continue(w)
  \/ Open(w)
  \/ Read(w)

Next ==
  \/ WalkFn
  \/ WalkSend
  \/ CloseCh
  \/ WgWait
  \/ CloseSig
  \/ EndedByUser
  \/ Signal
  \/ SendToken
  \/ SignalAgain
  \/ \E w \in Workers : Worker(w)

Spec == Init /\ [][Next]_vars

\* liveness: every goroutine that can step eventually does; signals are not
\* forced; no filesystem fault, the flag the handler never reads is off, and
\* the scan is the one that walks the whole tree and queues the most files
FairInit ==
  /\ Init /\ fault = NoFault /\ ~matchContext
  /\ limitMb = MaxLimit /\ exludedDirs = GetExcludedDirs(<<>>)

FairSpec ==
  /\ FairInit /\ [][Next]_vars
  /\ WF_vars(WalkFn) /\ WF_vars(WalkSend) /\ WF_vars(CloseCh) /\ WF_vars(WgWait)
  /\ WF_vars(CloseSig) /\ WF_vars(EndedByUser) /\ WF_vars(SendToken)
  /\ \A w \in Workers : WF_vars(Worker(w))

(* ----------------------------- ParseArgs ------------------------------ *)
Argvs ==
  [lim : {NoArg} \cup { <<v>> : v \in 0..MaxLimArg }, w : {NoArg, <<1>>, <<2>>},
   ctx : BOOLEAN,
   v : BOOLEAN, npos : 0..2]

\* Run is not started in this specification
RunIdle ==
  /\ exludedDirs = STD_EXC_DIRS /\ limitMb = 1 /\ matchContext = FALSE
  /\ fault = NoFault /\ runPc = "returned" /\ idx = 1 /\ halt = "run"
  /\ ch = <<>> /\ chClosed = FALSE /\ closeSignalChan = 0 /\ sigClosed = FALSE
  /\ stopWalk = FALSE /\ sigPc = "wait" /\ sigI = 0
  /\ wpc = [w \in Workers |-> "done"]
  /\ wentry = [w \in Workers |-> 0]
  /\ wline = [w \in Workers |-> 0]
  /\ errSeen = [w \in Workers |-> FALSE]
  /\ enq = {} /\ matches = [n \in Nodes |-> 0] /\ errs = {} /\ infoCount = 0
  /\ sigch = 0 /\ deq = [n \in Nodes |-> 0] /\ tested = {}

InitArgs ==
  /\ RunIdle
  /\ ppc = "define"
  /\ argv \in Argvs
  /\ f = NoFlags

\* flag.IntVar / flag.BoolVar store the defaults (part_000 55-61)
DefineFlags ==
  /\ ppc = "define"
  /\ f' = [workers |-> DefaultWorkers, limitBytes |-> DefaultLim,
           matchContext |-> FALSE, printVersion |-> FALSE]
  /\ ppc' = "scale"
  /\ UNCHANGED << argv, runVars >>

\* f.limitBytes = f.limitBytes * MEGABYTE (part_000 63)
ScaleLimit ==
  /\ ppc = "scale"
  /\ f' = [f EXCEPT !.limitBytes = @ * MEGABYTE]
  /\ ppc' = "parse"
  /\ UNCHANGED << argv, runVars >>

\* the Flags after flag.Parse() stored the values given on the command line
Parsed(fl, av) ==
  [workers |-> IF av.w = NoArg THEN fl.workers ELSE av.w[1],
   limitBytes |-> IF av.lim = NoArg THEN fl.limitBytes ELSE av.lim[1],
   matchContext |-> fl.matchContext \/ av.ctx,
   printVersion |-> fl.printVersion \/ av.v]

\* flag.Parse() (part_000 65)
FlagParse ==
  /\ ppc = "parse"
  /\ f' = Parsed(f, argv)
  /\ ppc' = "check"
  /\ UNCHANGED << argv, runVars >>

\* the positional-argument check and the return (part_000 67-76)
CheckArgs ==
  /\ ppc = "check"
  /\ ppc' = IF f.printVersion \/ argv.npos < 2 THEN "exit" ELSE "returned"
  /\ UNCHANGED << f, argv, runVars >>

NextArgs == DefineFlags \/ ScaleLimit \/ FlagParse \/ CheckArgs

SpecArgs == InitArgs /\ [][NextArgs]_vars

(* ------------------------ notions the claims use ---------------------- *)
\* the exclusion lists a run may have
ExclusionLists == { GetExcludedDirs(u) : u \in UserExcludes }

\* for each exclusion list, the paths whose full path or base name matches
\* one of its globs
GlobHits == [e \in ExclusionLists |-> { n \in Nodes : GlobHit(Tree[n].path, e) }]

\* for each exclusion list, the paths beneath a directory that matches
BeneathHitDir ==
  [e \in ExclusionLists |->
     { n \in Nodes : \E d \in GlobHits[e] : Tree[d].isDir /\ IsUnder(n, d) }]

\* n lies beneath a directory whose full path or base name matches a glob
UnderExcludedDir(n) == n \in BeneathHitDir[exludedDirs]

\* n itself, or a directory above it, matches a glob
Excluded(n) == n \in GlobHits[exludedDirs] \/ UnderExcludedDir(n)

\* regular, not excluded, strictly under the limit
Eligible(n) == Tree[n].regular /\ ~Excluded(n) /\ Tree[n].size < limitMb

\* some line of the file matches the pattern
ContentMatches(n) == \E k \in 1..Len(Tree[n].lines) : Tree[n].lines[k].m

\* number of matching lines that end in a newline
MatchingLines(n) ==
  Cardinality({ k \in 1..Len(Tree[n].lines) : Tree[n].lines[k].m /\ Tree[n].lines[k].nl })

\* a worker holds entry n
Held(n) == \E w \in Workers : wentry[w] = n

\* entry n is buffered in the channel
Queued(n) == \E k \in 1..Len(ch) : ch[k] = n

\* the process is over: Run returned, or the process died
Ended == runPc = "returned" \/ halt # "run"

\* Run returned from a scan nothing disturbed
CleanReturn == runPc = "returned" /\ halt = "run" /\ ~stopWalk /\ fault = NoFault

(* ------------------------------- claims ------------------------------- *)
\* C1: once a termination request has been handled, the run eventually ends
\* (Run returns; a process exit counts as an end too), whatever the
\* interleaving, the walker blocked on a full queue included.
C1_CancelEnds == stopWalk ~> Ended

\* C2: when Run returns from an undisturbed scan with no termination
\* request, every eligible file whose content matches has exactly one Match
\* event and every other path has none.
C2_ExactlyOneMatch ==
  CleanReturn =>
    \A n \in Nodes : matches[n] = IF Eligible(n) /\ ContentMatches(n) THEN 1 ELSE 0

\* C3: when Run returns from an undisturbed scan, a scanned file has one
\* Match event per matching (newline-terminated) line if match-context mode
\* is on, and one Match event if it has such a line and the mode is off.
C3_ContextEveryLine ==
  CleanReturn =>
    \A n \in enq :
      Tree[n].regular =>
        matches[n] = IF matchContext THEN MatchingLines(n)
                     ELSE IF MatchingLines(n) > 0 THEN 1 ELSE 0

\* C4: no file beneath a directory whose full path or base name matches an
\* exclusion glob is ever enqueued, buffered, held by a worker or reported.
C4_ExcludedSubtreeSkipped ==
  \A n \in Nodes :
    UnderExcludedDir(n) => n \notin enq /\ ~Queued(n) /\ ~Held(n) /\ matches[n] = 0

\* C4 witness: the walk is over, it went past an excluded directory that
\* holds a matching file under the limit, and other files were enqueued.
C4_Witness ==
  /\ runPc = "returned" /\ idx > NumNodes /\ enq # {}
  /\ \E n \in Nodes : UnderExcludedDir(n) /\ Tree[n].regular /\ ContentMatches(n)
                      /\ Tree[n].size < limitMb

\* C5: a path is enqueued if and only if it is a regular file, is not
\* excluded and is strictly under the limit (for the paths the walk has
\* gone past without a fault).
C5_EnqueuedIffEligible ==
  \A n \in Nodes :
    /\ n \in enq => Eligible(n)
    /\ (fault = NoFault /\ idx > n /\ Eligible(n)) => n \in enq

\* C6: every entry ever enqueued is a non-directory strictly under the limit;
\* a path of size >= limit is never enqueued, buffered, held or reported.
C6_SizeFilter ==
  /\ \A n \in enq : ~Tree[n].isDir /\ Tree[n].size < limitMb
  /\ \A k \in 1..Len(ch) : ~Tree[ch[k]].isDir /\ Tree[ch[k]].size < limitMb
  /\ \A n \in Nodes :
       Tree[n].size >= limitMb => n \notin enq /\ ~Queued(n) /\ ~Held(n) /\ matches[n] = 0

\* C6 witness: the walk went past a matching regular file whose size equals
\* the limit, outside every excluded directory, and enqueued other files.
C6_Witness ==
  /\ runPc = "returned" /\ idx > NumNodes /\ fault = NoFault /\ enq # {}
  /\ \E n \in Nodes : Tree[n].regular /\ Tree[n].size = limitMb /\ ContentMatches(n)
                      /\ ~Excluded(n)

\* C7: the limit ParseArgs returns is the -lim value (default 100) times
\* 1048576.
C7_LimitInBytes ==
  ppc = "returned" =>
    f.limitBytes = (IF argv.lim = NoArg THEN DefaultLim ELSE argv.lim[1]) * MEGABYTE

\* C8: a walk error on a path other than the root never ends the process,
\* and once the walk is past the failing path an Error event was reported
\* for it.
C8_WalkErrorContinues ==
  /\ halt \in {"fatal", "nilderef"} => idx = 1
  /\ (fault.kind \in {"lstat", "readdir"} /\ idx > fault.node) => fault.node \in errs

\* C9: a read that fails with an error other than end-of-file ends the
\* processing of the entry: the worker is not left in the read loop with
\* the file open.
C9_ReadErrorSkips == \A w \in Workers : errSeen[w] => wpc[w] # "read"

\* C10: at most one 'Ended by user' event, only after a termination request,
\* the closing of the queue and the exit of all workers; and a run that has
\* ended after a termination request has emitted exactly one.
C10_EndedByUserOnce ==
  /\ infoCount <= 1
  /\ infoCount = 1 => stopWalk /\ chClosed /\ \A w \in Workers : wpc[w] = "done"
  /\ (Ended /\ stopWalk) => infoCount = 1

\* C11: once the first termination request has been handled (all N tokens
\* delivered), no step, a further request included, resets StopCondition,
\* delivers a token, emits a second event or crashes the handler; a further
\* request changes nothing but the signal buffer.
C11_Idempotent ==
  [][ sigI >= NumWorkers =>
        /\ stopWalk' /\ sigI' = sigI /\ closeSignalChan' <= closeSignalChan
        /\ infoCount' <= 1 /\ halt' # "closedsend"
        /\ sigch' # sigch =>
             UNCHANGED << runPc, idx, halt, ch, chClosed, sigClosed, sigPc, wpc,
                          wentry, enq, matches, errs, infoCount >> ]_vars

\* C11 witness: a further request arrived after the first one was handled
C11_Witness == sigPc = "done" /\ sigI = NumWorkers /\ stopWalk /\ sigch = 1

\* the walk of an undisturbed scan hands n to a worker, which reads it
Scanned(n) ==
  ~UnderExcludedDir(n) /\ ~Tree[n].isDir /\ Tree[n].size < limitMb /\ Tree[n].regular

\* C12: with no termination request the Match events at the return of Run
\* are a function of the tree and the configuration alone: whatever the
\* interleaving, one event for each scanned file with a matching terminated
\* line and none for any other path.
C12_Deterministic ==
  CleanReturn =>
    matches = [n \in Nodes |-> IF Scanned(n) /\ MatchingLines(n) > 0 THEN 1 ELSE 0]

\* C12 witness: Run returned from a scan that enqueued more files than the
\* queue holds and reported at least two of them
C12_Witness ==
  /\ CleanReturn
  /\ Cardinality(enq) > QueueCap
  /\ Cardinality({ n \in Nodes : matches[n] > 0 }) >= 2

\* C13: while a cancellation token is available, a worker at its select
\* does not take another entry from the queue.
C13_NoNewEntryAfterCancel ==
  [][ \A w \in Workers :
        (closeSignalChan > 0 /\ wpc[w] = "select") => wpc'[w] # "open" ]_vars

C15_ClosedOnceAfterWalk ==
  /\ [](/\ chClosed => runPc \notin {"walk", "send"}
        /\ runPc \in {"wait", "closesig", "check", "returned"} => chClosed)
  /\ [][ /\ chClosed => (chClosed' /\ enq' = enq /\ Len(ch') <= Len(ch))
         /\ chClosed' # chClosed => (runPc = "close" /\ runPc' = "wait") ]_vars

\* C15 witness: the queue was closed after a walk that a termination
\* request cut short, with entries still buffered
C15_Witness == chClosed /\ stopWalk /\ idx <= NumNodes /\ ch # <<>>

\* how many times entry n is buffered in the channel
Occurrences(n) == Cardinality({ k \in 1..Len(ch) : ch[k] = n })

C17_StopAbortsWalk ==
  [][ stopWalk =>
        /\ runPc # "send" =>
             /\ enq' = enq /\ idx' = idx /\ errs' = errs /\ runPc' # "send"
             /\ halt' \notin {"fatal", "nilderef"}
             /\ (runPc = "walk" /\ runPc' # "walk") => runPc' = "close"
        /\ runPc = "send" => (enq' = enq \/ enq' = enq \cup {idx}) ]_vars

\* C17 witness: the walk was cut short by the flag with an eligible file
\* left unvisited, after it had enqueued something
C17_Witness ==
  /\ stopWalk /\ chClosed /\ idx <= NumNodes /\ enq # {}
  /\ \E n \in Nodes : n >= idx /\ Scanned(n)

\* C18: a worker waiting at its select with the queue open and empty and no
\* token available has no step to take.
C18_WorkerBlocks ==
  \A w \in Workers :
    (wpc[w] = "select" /\ ch = <<>> /\ ~chClosed /\ closeSignalChan = 0 /\ halt = "run")
      => ~ENABLED Worker(w)

\* C19: the signal goroutine never sends on the closed closeSignalChan.
C19_NoSendOnClosed == halt # "closedsend"

\* C20: with no termination request and no filesystem fault Run returns.
C20_Terminates == <>(runPc = "returned" \/ stopWalk)

\* C20 witness: Run returned with no termination request after the walker
\* had enqueued more files than the queue holds; all workers have exited
C20_Witness ==
  /\ runPc = "returned" /\ ~stopWalk /\ halt = "run"
  /\ Cardinality(enq) > QueueCap
  /\ ch = <<>> /\ chClosed /\ \A w \in Workers : wpc[w] = "done"

====
